---------------------------- MODULE Spec2Model ----------------------------
(***************************************************************************)
(* A model of core/src/tpu.rs: the Transaction Processing Unit.            *)
(*                                                                         *)
(*   - calculate_block_cost_limit_reservation, the pure reservation policy *)
(*     (SpecReservation);                                                  *)
(*   - Tpu::join, the shutdown protocol over the stage handles (SpecJoin); *)
(*   - the queues wired by Tpu::new around the FetchStageManager, the      *)
(*     "interception gate" (SpecGate, SpecGateFair);                       *)
(*   - Tpu::new itself, statement by statement (SpecNew);                  *)
(*   - the vote channel next to the gate (SpecVote);                       *)
(*   - the exit flag, the threads of the stages and a blocking Tpu::join   *)
(*     (SpecShutdown).                                                     *)
(*                                                                         *)
(* The specifications share one set of variables; each leaves the          *)
(* variables of the other parts at their initial values.                   *)
(***************************************************************************)
EXTENDS Integers, Sequences, FiniteSets, TLC

VARIABLES
    \* ---- Tpu::join ----
    outcome,        \* handle -> what its thread's join yields
    joined,         \* handles on which join has been called
    results,        \* the vec! of the thirteen results, in order
    broadcast_result, \* the result of broadcast_stage.join(), <<>> before
    join_pc,        \* position inside Tpu::join
    join_ret,       \* <<>> while running, <<"Ok">> or <<"Err", handle>>
    logged,         \* the error! line of the tracer's inner error was written
    \* ---- reservation policy ----
    tick_height,    \* bank.tick_height()
    ticks_per_slot, \* bank.ticks_per_slot() / poh_recorder.ticks_per_slot()
    reserved_ticks,
    preallocated_bundle_cost,
    reservation,    \* last query: <<>> none, or <<tick, value or "panic", slot_tick>>
    slot_tick,      \* history: ticks registered since the interval began
    \* ---- the queues around the FetchStageManager ----
    mode,             \* the gate's interception mode: "Direct" or "Relayed"
    packet_intercept, \* channel of tpu.rs 172, a sequence of batches
    packet,           \* channel of tpu.rs 279, read by sigverify_stage
    heartbeat,        \* channel of tpu.rs 312: number of pulses in it
    heartbeat_tx,     \* the relayer stage still holds heartbeat_tx
    hb_closed_mode,   \* "open", or the gate's mode when heartbeat_tx was dropped
    gate_event,       \* the gate's last event
    gate_seen,        \* history: <<batch, mode>> of every batch the gate received
    packet_log,       \* history: every batch sent on packet_sender
    batches_sent,     \* number of batches the transports have produced
    heartbeats_sent,  \* number of heartbeats the relayer has sent
    injected,         \* number of batches the relayer / block engine have sent
    relayed_log,      \* history: the batches sent on packet_sender while Relayed
    \* ---- the vote path ----
    vote_packet,      \* channel of tpu.rs 174, read by vote_sigverify_stage
    votes_sent,       \* history: <<batch, mode>> of every vote batch sent
    vote_verified,    \* history: the batches vote_sigverify_stage has received
    \* ---- Tpu::new ----
    new_step,         \* index in NewSteps of the statement Tpu::new is at
    new_state,        \* "running", "panicked" or "returned"
    new_panic,        \* line of the unwrap() that panicked, 0 if none
    started,          \* the stages whose constructor has spawned their threads
    blacklisted_accounts, \* the HashSet of tpu.rs 359, as built so far
    literals_done,    \* number of literals of the list parsed and inserted
    \* ---- shutdown of the running pipeline ----
    exit,             \* the Arc<AtomicBool> handed to Tpu::new
    terminated        \* the handles whose thread has ended

joinVars == <<outcome, joined, results, broadcast_result, join_pc, join_ret, logged>>
resVars  == <<tick_height, ticks_per_slot, reserved_ticks, preallocated_bundle_cost,
              reservation, slot_tick>>
gateVars == <<mode, packet_intercept, packet, heartbeat, heartbeat_tx, hb_closed_mode,
              gate_event, gate_seen, packet_log, batches_sent, heartbeats_sent,
              injected, relayed_log>>
newVars  == <<new_step, new_state, new_panic, started, blacklisted_accounts,
              literals_done>>
shutVars == <<exit, terminated>>
voteVars == <<vote_packet, votes_sent, vote_verified>>
vars     == <<joinVars, resVars, gateVars, newVars, shutVars, voteVars>>

\* what the actions of one part leave unchanged
notJoin == <<resVars, gateVars, newVars, shutVars, voteVars>>
notRes  == <<joinVars, gateVars, newVars, shutVars, voteVars>>
notGate == <<joinVars, resVars, newVars, shutVars, voteVars>>
notNew  == <<joinVars, gateVars, shutVars, voteVars>>
notShut == <<resVars, gateVars, newVars, voteVars>>
notVote == <<joinVars, resVars, gateVars, newVars, shutVars>>

(***************************************************************************)
(* Bounds of the model.                                                    *)
(***************************************************************************)
\* at most this many of the thirteen listed stages end in a panic
MaxPanics == 2
\* largest ticks_per_slot, reserved_ticks and cost drawn for the policy
MaxTicksPerSlot == 5
MaxReservedTicks == 6
MaxCost == 2
\* number of slots the bank's tick height is followed through
MaxSlots == 2
\* batches produced by the transports, heartbeats sent by the relayer,
\* batches injected by the relayer and the block engine, vote batches
\* produced by the vote transports
MaxBatches == 3
MaxHeartbeats == 2
MaxInjected == 1
MaxVotes == 1
\* u64::MAX, scaled down to a six-bit word: ticks_per_slot ranges over all of
\* 0..U64_MAX and the multiplication by 8 leaves the word for most of them
U64_MAX == 63

(***************************************************************************)
(* The reservation policy                                                  *)
(***************************************************************************)
\* a bug: the window is one tick too long
calculate_block_cost_limit_reservation_le(th, tps, rt, cost) ==
    IF tps = 0 THEN "panic"
    ELSE IF th % tps <= rt THEN cost ELSE 0

\* a bug: the tick height is compared as it is, not its remainder in the slot
calculate_block_cost_limit_reservation_nomod(th, tps, rt, cost) ==
    IF tps = 0 THEN "panic"
    ELSE IF th < rt THEN cost ELSE 0

\* tpu.rs 85-95; u64 `%` panics on a zero divisor
calculate_block_cost_limit_reservation(th, tps, rt, cost) ==
    IF tps = 0 THEN "panic"
    ELSE IF th % tps < rt THEN cost ELSE 0

\* the inputs of the policy: every small combination, and the bank of ten
\* ticks per slot with eight of them reserved for a cost of 100
ReservationInit ==
    /\ tick_height = 0
    /\ \/ /\ ticks_per_slot \in 0..MaxTicksPerSlot
          /\ reserved_ticks \in 0..MaxReservedTicks
          /\ preallocated_bundle_cost \in 0..MaxCost
       \/ /\ ticks_per_slot = 10
          /\ reserved_ticks = 8
          /\ preallocated_bundle_cost = 100
    /\ reservation = <<>>
    /\ slot_tick = 0

ReservationIdle ==
    /\ tick_height = 0
    /\ ticks_per_slot = 1
    /\ reserved_ticks = 0
    /\ preallocated_bundle_cost = 0
    /\ reservation = <<>>
    /\ slot_tick = 0

\* the closure handed to BankingStage::new (tpu.rs 659-665), called per bank
QueryReservation ==
    /\ reservation' = <<tick_height,
                        calculate_block_cost_limit_reservation(
                            tick_height, ticks_per_slot, reserved_ticks,
                            preallocated_bundle_cost),
                        slot_tick>>
    /\ UNCHANGED <<tick_height, ticks_per_slot, reserved_ticks,
                   preallocated_bundle_cost, slot_tick>>
    /\ UNCHANGED notRes

\* bank.register_default_tick_for_test() in the test (tpu.rs 784, 800):
\* the tick height advances by one
RegisterTick ==
    /\ tick_height < MaxSlots * MaxTicksPerSlot
    /\ tick_height' = tick_height + 1
    /\ slot_tick' = IF slot_tick + 1 >= ticks_per_slot THEN 0 ELSE slot_tick + 1
    /\ UNCHANGED <<ticks_per_slot, reserved_ticks, preallocated_bundle_cost,
                   reservation>>
    /\ UNCHANGED notRes

(***************************************************************************)
(* Tpu::join                                                               *)
(***************************************************************************)
\* the vec! of tpu.rs 733-747, in its order
JoinOrder ==
    <<"fetch_stage", "sigverify_stage", "vote_sigverify_stage",
      "cluster_info_vote_listener", "banking_stage",
      "staked_nodes_updater_service", "tpu_quic_t", "tpu_forwards_quic_t",
      "tpu_vote_quic_t", "bundle_stage", "relayer_stage",
      "block_engine_stage", "fetch_stage_manager">>

ListedStages == {JoinOrder[i] : i \in 1..Len(JoinOrder)}

\* every handle of struct Tpu (tpu.rs 97-114)
Handles == ListedStages \cup {"broadcast_stage", "tpu_entry_notifier",
                              "tracer_thread_hdl"}

\* the handles this Tpu holds: the two Options may be None
Owned == {h \in Handles : outcome[h] # "None"}

\* the handles whose thread ended in a panic (join yields Err)
Panicked == {h \in Handles : outcome[h] = "Err"}

\* thread::Result of each handle; the tracer's is nested:
\* Err (panic), OkOk = Ok(Ok(())), OkErr = Ok(Err(TraceError))
OutcomesOf(h) ==
    IF h = "tpu_entry_notifier" THEN {"None", "Ok", "Err"}
    ELSE IF h = "tracer_thread_hdl" THEN {"None", "Err", "OkOk", "OkErr"}
    ELSE {"Ok", "Err"}

\* the sets of listed stages that may have panicked
PanicSets == {P \in SUBSET ListedStages : Cardinality(P) <= MaxPanics}

JoinInit ==
    /\ outcome \in {[h \in Handles |->
                        IF h \in P THEN "Err"
                        ELSE IF h = "broadcast_stage" THEN b
                        ELSE IF h = "tpu_entry_notifier" THEN n
                        ELSE IF h = "tracer_thread_hdl" THEN t
                        ELSE "Ok"] :
                      P \in PanicSets,
                      b \in OutcomesOf("broadcast_stage"),
                      n \in OutcomesOf("tpu_entry_notifier"),
                      t \in OutcomesOf("tracer_thread_hdl")}
    /\ joined = {}
    /\ results = <<>>
    /\ broadcast_result = <<>>
    /\ join_pc = "results"
    /\ join_ret = <<>>
    /\ logged = FALSE

JoinIdle ==
    /\ outcome = [h \in Handles |-> IF h \in {"tpu_entry_notifier", "tracer_thread_hdl"}
                                    THEN "None" ELSE "Ok"]
    /\ joined = {}
    /\ results = <<>>
    /\ broadcast_result = <<>>
    /\ join_pc = "results"
    /\ join_ret = <<>>
    /\ logged = FALSE

\* tpu.rs 733-747: the next element of the vec! is evaluated
JoinResults ==
    /\ join_pc = "results"
    /\ LET h == JoinOrder[Len(results) + 1] IN
         /\ joined' = joined \cup {h}
         /\ results' = Append(results, <<h, outcome[h]>>)
    /\ join_pc' = IF Len(results) + 1 = Len(JoinOrder) THEN "broadcast" ELSE "results"
    /\ UNCHANGED <<outcome, broadcast_result, join_ret, logged>>
    /\ UNCHANGED notJoin

\* tpu.rs 748
JoinBroadcast ==
    /\ join_pc = "broadcast"
    /\ joined' = joined \cup {"broadcast_stage"}
    /\ broadcast_result' = <<outcome["broadcast_stage"]>>
    /\ join_pc' = "examine"
    /\ UNCHANGED <<outcome, results, join_ret, logged>>
    /\ UNCHANGED notJoin

\* a bug: the vec! is examined from its end
LastErr(rs) ==
    IF \E i \in 1..Len(rs) : rs[i][2] = "Err"
    THEN CHOOSE i \in 1..Len(rs) :
            /\ rs[i][2] = "Err"
            /\ \A j \in (i + 1)..Len(rs) : rs[j][2] # "Err"
    ELSE 0

\* the index of the first Err in the vec!, 0 when there is none
FirstErr(rs) ==
    IF \E i \in 1..Len(rs) : rs[i][2] = "Err"
    THEN CHOOSE i \in 1..Len(rs) :
            /\ rs[i][2] = "Err"
            /\ \A j \in 1..(i - 1) : rs[j][2] # "Err"
    ELSE 0

\* a bug: `let _ = result;`, the failures of the vec! are dropped
ExamineResultsDropped ==
    /\ join_pc = "examine"
    /\ join_pc' = "notifier"
    /\ UNCHANGED <<outcome, joined, results, broadcast_result, join_ret, logged>>
    /\ UNCHANGED notJoin

\* tpu.rs 749-751: `result?` returns at the first Err
ExamineResults ==
    /\ join_pc = "examine"
    /\ IF FirstErr(results) # 0
       THEN /\ join_ret' = <<"Err", results[FirstErr(results)][1]>>
            /\ join_pc' = "done"
       ELSE /\ join_ret' = join_ret
            /\ join_pc' = "notifier"
    /\ UNCHANGED <<outcome, joined, results, broadcast_result, logged>>
    /\ UNCHANGED notJoin

\* a bug: `let _ = tpu_entry_notifier.join();`
JoinEntryNotifierIgnored ==
    /\ join_pc = "notifier"
    /\ joined' = IF outcome["tpu_entry_notifier"] # "None"
                 THEN joined \cup {"tpu_entry_notifier"} ELSE joined
    /\ join_pc' = "broadcast_result"
    /\ UNCHANGED <<outcome, results, broadcast_result, join_ret, logged>>
    /\ UNCHANGED notJoin

\* tpu.rs 752-754
JoinEntryNotifier ==
    /\ join_pc = "notifier"
    /\ IF outcome["tpu_entry_notifier"] = "None"
       THEN /\ joined' = joined
            /\ join_ret' = join_ret
            /\ join_pc' = "broadcast_result"
       ELSE /\ joined' = joined \cup {"tpu_entry_notifier"}
            /\ IF outcome["tpu_entry_notifier"] = "Err"
               THEN /\ join_ret' = <<"Err", "tpu_entry_notifier">>
                    /\ join_pc' = "done"
               ELSE /\ join_ret' = join_ret
                    /\ join_pc' = "broadcast_result"
    /\ UNCHANGED <<outcome, results, broadcast_result, logged>>
    /\ UNCHANGED notJoin

\* tpu.rs 755: `let _ = broadcast_result?;`
ExamineBroadcast ==
    /\ join_pc = "broadcast_result"
    /\ IF broadcast_result = <<"Err">>
       THEN /\ join_ret' = <<"Err", "broadcast_stage">>
            /\ join_pc' = "done"
       ELSE /\ join_ret' = join_ret
            /\ join_pc' = "tracer"
    /\ UNCHANGED <<outcome, joined, results, broadcast_result, logged>>
    /\ UNCHANGED notJoin

\* a bug: the inner error is propagated like the outer one
JoinTracerInnerFails ==
    /\ join_pc = "tracer"
    /\ joined' = IF outcome["tracer_thread_hdl"] # "None"
                 THEN joined \cup {"tracer_thread_hdl"} ELSE joined
    /\ join_ret' = IF outcome["tracer_thread_hdl"] \in {"Err", "OkErr"}
                   THEN <<"Err", "tracer_thread_hdl">> ELSE <<"Ok">>
    /\ join_pc' = "done"
    /\ UNCHANGED <<outcome, results, broadcast_result, logged>>
    /\ UNCHANGED notJoin

\* tpu.rs 756-764: the tracer's nested outcome, then Ok(())
JoinTracer ==
    /\ join_pc = "tracer"
    /\ joined' = IF outcome["tracer_thread_hdl"] # "None"
                 THEN joined \cup {"tracer_thread_hdl"} ELSE joined
    /\ join_ret' = IF outcome["tracer_thread_hdl"] = "Err"
                   THEN <<"Err", "tracer_thread_hdl">> ELSE <<"Ok">>
    /\ logged' = (outcome["tracer_thread_hdl"] = "OkErr")
    /\ join_pc' = "done"
    /\ UNCHANGED <<outcome, results, broadcast_result>>
    /\ UNCHANGED notJoin

(***************************************************************************)
(* The queues wired by Tpu::new around the FetchStageManager               *)
(*                                                                         *)
(* Tpu::new fixes who sends on and who receives from each channel.  What   *)
(* the FetchStageManager does with them lives in                           *)
(* proxy/fetch_stage_manager.rs; it is modelled from the Interception Gate *)
(* of the design (section 4.1) and from the comment of tpu.rs 170-171.     *)
(***************************************************************************)
\* the transports that are handed packet_intercept_sender (tpu.rs 181, 242)
PrimaryIngress == {"fetch_stage", "tpu_quic_t"}

\* the stages that are handed a clone of packet_sender besides the
\* FetchStageManager (tpu.rs 306, 325)
Injectors == {"block_engine_stage", "relayer_stage"}

IsIngress(b) == b[1] \in PrimaryIngress

IsDirect(e) == e[2] = "Direct"

GateInit ==
    /\ mode = "Direct"
    /\ packet_intercept = <<>>
    /\ packet = <<>>
    /\ heartbeat = 0
    /\ heartbeat_tx = TRUE
    /\ hb_closed_mode = "open"
    /\ gate_event = "none"
    /\ gate_seen = <<>>
    /\ packet_log = <<>>
    /\ batches_sent = 0
    /\ heartbeats_sent = 0
    /\ injected = 0
    /\ relayed_log = <<>>
    /\ vote_packet = <<>>
    /\ votes_sent = <<>>
    /\ vote_verified = <<>>

\* a bug: the transport is handed packet_sender, around the gate
IngressSendBypass ==
    /\ batches_sent < MaxBatches
    /\ \E src \in PrimaryIngress :
         /\ packet' = Append(packet, <<src, batches_sent + 1>>)
         /\ packet_log' = Append(packet_log, <<src, batches_sent + 1>>)
         /\ relayed_log' = IF mode = "Relayed"
                           THEN Append(relayed_log, <<src, batches_sent + 1>>)
                           ELSE relayed_log
    /\ batches_sent' = batches_sent + 1
    /\ UNCHANGED <<mode, packet_intercept, heartbeat, heartbeat_tx, hb_closed_mode,
                   gate_event, gate_seen, heartbeats_sent, injected>>
    /\ UNCHANGED notGate

\* tpu.rs 176-189 and 237-252: FetchStage and the TPU QUIC server send
\* their batches on packet_intercept_sender
IngressSend ==
    /\ batches_sent < MaxBatches
    /\ \E src \in PrimaryIngress :
         packet_intercept' = Append(packet_intercept, <<src, batches_sent + 1>>)
    /\ batches_sent' = batches_sent + 1
    /\ UNCHANGED <<mode, packet, heartbeat, heartbeat_tx, hb_closed_mode, gate_event,
                   gate_seen, packet_log, heartbeats_sent, injected>>
    /\ UNCHANGED relayed_log
    /\ UNCHANGED notGate

\* a bug: a packet arrival reconnects the gate
GateRecvPacketResets ==
    /\ packet_intercept # <<>>
    /\ LET b == Head(packet_intercept) IN
         /\ gate_seen' = Append(gate_seen, <<b, "Direct">>)
         /\ packet' = Append(packet, b)
         /\ packet_log' = Append(packet_log, b)
         /\ relayed_log' = IF mode = "Relayed" THEN Append(relayed_log, b)
                           ELSE relayed_log
    /\ mode' = "Direct"
    /\ packet_intercept' = Tail(packet_intercept)
    /\ gate_event' = "packet"
    /\ UNCHANGED <<heartbeat, heartbeat_tx, hb_closed_mode, batches_sent,
                   heartbeats_sent, injected>>
    /\ UNCHANGED notGate

\* FetchStageManager (tpu.rs 313-319: packet_intercept_receiver in,
\* packet_sender out): a batch is forwarded while Direct, dropped while Relayed
GateRecvPacket ==
    /\ packet_intercept # <<>>
    /\ LET b == Head(packet_intercept) IN
         /\ gate_seen' = Append(gate_seen, <<b, mode>>)
         /\ IF mode = "Direct"
            THEN /\ packet' = Append(packet, b)
                 /\ packet_log' = Append(packet_log, b)
            ELSE /\ packet' = packet
                 /\ packet_log' = packet_log
    /\ packet_intercept' = Tail(packet_intercept)
    /\ gate_event' = "packet"
    /\ UNCHANGED <<mode, heartbeat, heartbeat_tx, hb_closed_mode, batches_sent,
                   heartbeats_sent, injected>>
    /\ UNCHANGED relayed_log
    /\ UNCHANGED notGate

\* RelayerStage (tpu.rs 321-328) is the one holder of heartbeat_tx
RelayerHeartbeat ==
    /\ heartbeat_tx
    /\ heartbeats_sent < MaxHeartbeats
    /\ heartbeat' = heartbeat + 1
    /\ heartbeats_sent' = heartbeats_sent + 1
    /\ UNCHANGED <<mode, packet_intercept, packet, heartbeat_tx, hb_closed_mode,
                   gate_event, gate_seen, packet_log, batches_sent, injected>>
    /\ UNCHANGED relayed_log
    /\ UNCHANGED notGate

\* the relayer stage's thread ends and drops heartbeat_tx: heartbeat_rx
\* yields what is still queued and is disconnected after that
RelayerExit ==
    /\ heartbeat_tx
    /\ heartbeat_tx' = FALSE
    /\ hb_closed_mode' = mode
    /\ UNCHANGED <<mode, packet_intercept, packet, heartbeat, gate_event, gate_seen,
                   packet_log, batches_sent, heartbeats_sent, injected>>
    /\ UNCHANGED relayed_log
    /\ UNCHANGED notGate

\* FetchStageManager: a heartbeat is received from heartbeat_rx (tpu.rs 315)
GateRecvHeartbeat ==
    /\ heartbeat > 0
    /\ heartbeat' = heartbeat - 1
    /\ mode' = "Relayed"
    /\ gate_event' = "heartbeat"
    /\ UNCHANGED <<packet_intercept, packet, heartbeat_tx, hb_closed_mode, gate_seen,
                   packet_log, batches_sent, heartbeats_sent, injected>>
    /\ UNCHANGED relayed_log
    /\ UNCHANGED notGate

\* a bug: the wait for a heartbeat is a blocking receive, which a closed
\* channel never completes with a timeout
GateTimeoutBlocking ==
    /\ mode = "Relayed"
    /\ heartbeat = 0
    /\ heartbeat_tx
    /\ mode' = "Direct"
    /\ gate_event' = "timeout"
    /\ UNCHANGED <<packet_intercept, packet, heartbeat, heartbeat_tx, hb_closed_mode,
                   gate_seen, packet_log, batches_sent, heartbeats_sent, injected>>
    /\ UNCHANGED relayed_log
    /\ UNCHANGED notGate

\* FetchStageManager: the timed wait for a heartbeat ends without one, the
\* channel being empty or closed
GateTimeout ==
    /\ mode = "Relayed"
    /\ heartbeat = 0
    /\ mode' = "Direct"
    /\ gate_event' = "timeout"
    /\ UNCHANGED <<packet_intercept, packet, heartbeat, heartbeat_tx, hb_closed_mode,
                   gate_seen, packet_log, batches_sent, heartbeats_sent, injected>>
    /\ UNCHANGED relayed_log
    /\ UNCHANGED notGate

\* BlockEngineStage and RelayerStage send their own batches on their
\* clones of packet_sender (tpu.rs 306, 325)
InjectPackets ==
    /\ injected < MaxInjected
    /\ \E src \in Injectors :
         /\ src = "relayer_stage" => heartbeat_tx
         /\ packet' = Append(packet, <<src, injected + 1>>)
         /\ packet_log' = Append(packet_log, <<src, injected + 1>>)
         /\ relayed_log' = IF mode = "Relayed"
                           THEN Append(relayed_log, <<src, injected + 1>>)
                           ELSE relayed_log
    /\ injected' = injected + 1
    /\ UNCHANGED <<mode, packet_intercept, heartbeat, heartbeat_tx, hb_closed_mode,
                   gate_event, gate_seen, batches_sent, heartbeats_sent>>
    /\ UNCHANGED notGate

\* SigVerifyStage reads packet_receiver (tpu.rs 281-284)
SigVerifyRecv ==
    /\ packet # <<>>
    /\ packet' = Tail(packet)
    /\ UNCHANGED <<mode, packet_intercept, heartbeat, heartbeat_tx, hb_closed_mode,
                   gate_event, gate_seen, packet_log, batches_sent, heartbeats_sent,
                   injected>>
    /\ UNCHANGED relayed_log
    /\ UNCHANGED notGate

GateNext ==
    \/ IngressSend
    \/ GateRecvPacket
    \/ RelayerHeartbeat
    \/ RelayerExit
    \/ GateRecvHeartbeat
    \/ GateTimeout
    \/ InjectPackets
    \/ SigVerifyRecv

\* the gate alone with its two inputs: the channel towards sigverify is
\* unbounded, so what happens behind it never holds the gate up
GateFairNext ==
    \/ IngressSend
    \/ GateRecvPacket
    \/ RelayerHeartbeat
    \/ RelayerExit
    \/ GateRecvHeartbeat
    \/ GateTimeout

(***************************************************************************)
(* The vote path                                                           *)
(***************************************************************************)
\* the transports that are handed vote_packet_sender (tpu.rs 182, 217)
VoteIngress == {"fetch_stage", "tpu_vote_quic_t"}

\* a bug: the vote transports are handed packet_intercept_sender
VoteSendIntercepted ==
    /\ Len(votes_sent) < MaxVotes
    /\ \E src \in VoteIngress :
         LET b == <<src, Len(votes_sent) + 1>> IN
           /\ packet_intercept' = Append(packet_intercept, b)
           /\ votes_sent' = Append(votes_sent, <<b, mode>>)
    /\ UNCHANGED <<vote_packet, vote_verified>>
    /\ UNCHANGED <<mode, packet, heartbeat, heartbeat_tx, hb_closed_mode, gate_event,
                   gate_seen, packet_log, batches_sent, heartbeats_sent, injected,
                   relayed_log>>
    /\ UNCHANGED <<joinVars, resVars, newVars, shutVars>>

\* tpu.rs 176-189 and 208-230: FetchStage and the vote QUIC server send their
\* vote batches on vote_packet_sender
VoteSend ==
    /\ Len(votes_sent) < MaxVotes
    /\ \E src \in VoteIngress :
         LET b == <<src, Len(votes_sent) + 1>> IN
           /\ vote_packet' = Append(vote_packet, b)
           /\ votes_sent' = Append(votes_sent, <<b, mode>>)
    /\ UNCHANGED vote_verified
    /\ UNCHANGED notVote

\* tpu.rs 286-294: SigVerifyStage::new(vote_packet_receiver, ..)
VoteSigVerifyRecv ==
    /\ vote_packet # <<>>
    /\ vote_verified' = Append(vote_verified, Head(vote_packet))
    /\ vote_packet' = Tail(vote_packet)
    /\ UNCHANGED votes_sent
    /\ UNCHANGED notVote

\* the vote path next to the gate and its two inputs
VoteNext ==
    \/ VoteSend
    \/ VoteSigVerifyRecv
    \/ GateFairNext

(***************************************************************************)
(* Tpu::new, statement by statement                                        *)
(***************************************************************************)
\* the statements of Tpu::new that start a stage, compute reserved_ticks or
\* build the blacklist, in program order, with the line each begins at
NewSteps ==
    <<[name |-> "fetch_stage",                  kind |-> "stage",    line |-> 176],
      [name |-> "staked_nodes_updater_service", kind |-> "stage",    line |-> 191],
      [name |-> "tpu_vote_quic_t",              kind |-> "spawn",    line |-> 230],
      [name |-> "tpu_quic_t",                   kind |-> "spawn",    line |-> 252],
      [name |-> "tpu_forwards_quic_t",          kind |-> "spawn",    line |-> 277],
      [name |-> "sigverify_stage",              kind |-> "stage",    line |-> 281],
      [name |-> "vote_sigverify_stage",         kind |-> "stage",    line |-> 286],
      [name |-> "block_engine_stage",           kind |-> "stage",    line |-> 302],
      [name |-> "fetch_stage_manager",          kind |-> "stage",    line |-> 313],
      [name |-> "relayer_stage",                kind |-> "stage",    line |-> 321],
      [name |-> "cluster_info_vote_listener",   kind |-> "stage",    line |-> 330],
      [name |-> "reserved_ticks",               kind |-> "reserved", line |-> 352],
      [name |-> "tip_payment_program_id",       kind |-> "tip",      line |-> 359],
      [name |-> "blacklisted_accounts",         kind |-> "literals", line |-> 361]>>

\* the string literals of tpu.rs 361-642, in program order: the text, its
\* length, whether all its characters are of the base58 alphabet, and the
\* number of bytes it decodes to
BlacklistLiterals ==
    <<
      [line |-> 362, text |-> "KLend2g3cP87fffoy8q1mQqGKjrxjC8boSyAYavgmjD",
       len |-> 43, base58 |-> TRUE, bytes |-> 32],
      [line |-> 364, text |-> "dRiftyHA39MWEi3m9aunc5MzRF1JYuBsbn6VPcn33UH",
       len |-> 43, base58 |-> TRUE, bytes |-> 32],
      [line |-> 366, text |-> "27G8MtK7VtTcCHkpASjSDdkWWYfoqT6ggEuKidVJidD4",
       len |-> 44, base58 |-> TRUE, bytes |-> 32],
      [line |-> 368, text |-> "4UpD2fh7xH3VP9QQaXtsS1YY3bxzWhtfpks7FatyKvdY",
       len |-> 44, base58 |-> TRUE, bytes |-> 32],
      [line |-> 370, text |-> "MFv2hWf31Z9kbCa1snEPYctwafyhdvnV7FZnsebVacA",
       len |-> 43, base58 |-> TRUE, bytes |-> 32],
      [line |-> 372, text |-> "LipsxuAkFkwa4RKNzn51wAsW7Dedzt1RNHMkTkDEZUW",
       len |-> 43, base58 |-> TRUE, bytes |-> 32],
      [line |-> 374, text |-> "So1endDq2YkqhipRh3WViPa8hdiSpxWy6z3Z6tMCpAo",
       len |-> 43, base58 |-> TRUE, bytes |-> 32],
      [line |-> 376, text |-> "2Fwvr3MKhHhqakgjjEWcpWZZabbRCetHjukHi1zfKxjk",
       len |-> 44, base58 |-> TRUE, bytes |-> 32],
      [line |-> 378, text |-> "5pHk2TmnqQzRF9L6egy5FfiyBgS7G9cMZ5RFaJAvghzw",
       len |-> 44, base58 |-> TRUE, bytes |-> 32],
      [line |-> 380, text |-> "9RuqAN42PTUi9ya59k9suGATrkqzvb9gk2QABJtQzGP5",
       len |-> 44, base58 |-> TRUE, bytes |-> 32],
      [line |-> 382, text |-> "DdZR6zRFiUt4S5mg7AV1uKB2z1f1WzcNYCaTEEWPAuby",
       len |-> 44, base58 |-> TRUE, bytes |-> 32],
      [line |-> 384, text |-> "7RCz8wb6WXxUhAigok9ttgrVgDFFFbibcirECzWSBauM",
       len |-> 44, base58 |-> TRUE, bytes |-> 32],
      [line |-> 386, text |-> "55YceCDfyvdcPPozDiMeNp9TpwmL1hdoTEFw5BMNWbpf",
       len |-> 44, base58 |-> TRUE, bytes |-> 32],
      [line |-> 388, text |-> "UTABCRXirrbpCNDogCoqEECtM3V44jXGCsK23ZepV3Z",
       len |-> 43, base58 |-> TRUE, bytes |-> 32],
      [line |-> 390, text |-> "EjUgEaPpKMg2nqex9obb46gZQ6Ar9mWSdVKbw9A6PyXA",
       len |-> 44, base58 |-> TRUE, bytes |-> 32],
      [line |-> 392, text |-> "AVxnqyCameKsKTCGVKeyJMA7vjHnxJit6afC8AM9MdMj",
       len |-> 44, base58 |-> TRUE, bytes |-> 32],
      [line |-> 394, text |-> "HKijBKC2zKcV2BXA9CuNemmWUhTuFkPLLgvQBP7zrQjL",
       len |-> 44, base58 |-> TRUE, bytes |-> 32],
      [line |-> 396, text |-> "6LtLpnUFNByNXLyCoK9wA2MykKAmQNZKBdY8s47dehDc",
       len |-> 44, base58 |-> TRUE, bytes |-> 32],
      [line |-> 398, text |-> "7u3HeHxYDLhnCoErrtycNokbQYbWGzLs6JSDqGAv5PfF",
       len |-> 44, base58 |-> TRUE, bytes |-> 32],
      [line |-> 400, text |-> "d4A2prbA2whesmvHaL88BH6Ewn5N4bTSU2Ze8P6Bc4Q",
       len |-> 43, base58 |-> TRUE, bytes |-> 32],
      [line |-> 402, text |-> "HYnVhjsvU1vBKTPsXs1dWe6cJeuU8E4gjoYpmwe81KzN",
       len |-> 44, base58 |-> TRUE, bytes |-> 32],
      [line |-> 404, text |-> "H3t6qZ1JkguCNTi9uzVKqQ7dvt2cum4XiXWom6Gn5e5S",
       len |-> 44, base58 |-> TRUE, bytes |-> 32],
      [line |-> 406, text |-> "2gc9Dm1eB6UgVYFBUN9bWks6Kes9PbWSaPaa9DqyvEiN",
       len |-> 44, base58 |-> TRUE, bytes |-> 32],
      [line |-> 408, text |-> "D6q6wuQSrifJKZYpR1M8R4YawnLDtDsMmWM1NbBmgJ59",
       len |-> 44, base58 |-> TRUE, bytes |-> 32],
      [line |-> 410, text |-> "3NJYftD5sjVfxSnUdZ1wVML8f3aC6mp1CXCL6L7TnU8C",
       len |-> 44, base58 |-> TRUE, bytes |-> 32],
      [line |-> 412, text |-> "i7u4r16TcsJTgq1kAG8opmVZyVnAKBwLKu6ZPMwzxNc",
       len |-> 43, base58 |-> TRUE, bytes |-> 32],
      [line |-> 414, text |-> "24Uqj9JCLxUeoC3hGfh5W3s9FM9uCHDS2SG3LYwBpyTi",
       len |-> 44, base58 |-> TRUE, bytes |-> 32],
      [line |-> 416, text |-> "FL3X2pRsQ9zHENpZSKDRREtccwJuei8yg9fwDu9UN69Q",
       len |-> 44, base58 |-> TRUE, bytes |-> 32],
      [line |-> 418, text |-> "AuQaustGiaqxRvj2gtCdrd22PBzTn8kM3kEPEkZCtuDw",
       len |-> 44, base58 |-> TRUE, bytes |-> 32],
      [line |-> 420, text |-> "4o3qAErcapJ6gRLh1m1x4saoLLieWDu7Rx3wpwLc7Zk9",
       len |-> 44, base58 |-> TRUE, bytes |-> 32],
      [line |-> 422, text |-> "13gDzEXCdocbj8iAiqrScGo47NiSuYENGsRqi3SEAwet",
       len |-> 44, base58 |-> TRUE, bytes |-> 32],
      [line |-> 424, text |-> "4yCLi5yWGzpTWMQ1iWHG5CrGYAdBkhyEdsuSugjDUqwj",
       len |-> 44, base58 |-> TRUE, bytes |-> 32],
      [line |-> 426, text |-> "5GAFPnocJ4GUDJJxtExBDsH5wXzJd3RYzG8goGGCneJi",
       len |-> 44, base58 |-> TRUE, bytes |-> 32],
      [line |-> 428, text |-> "9nD5AenzdbhRqWo7JufdNBbC4VjZ5QH7jzLuvPZy2rhb",
       len |-> 44, base58 |-> TRUE, bytes |-> 32],
      [line |-> 430, text |-> "4LLbsb5ReP3yEtYzmXewyGjcir5uXtKFURtaEUVC2AHs",
       len |-> 44, base58 |-> TRUE, bytes |-> 32],
      [line |-> 432, text |-> "3parcLrT7WnXAcyPfkCz49oofuuf2guUKkjuFkAhZW8Y",
       len |-> 44, base58 |-> TRUE, bytes |-> 32],
      [line |-> 434, text |-> "PaRCLKPpkfHQfXTruT8yhEUx5oRNH8z8erBnzEerc8a",
       len |-> 43, base58 |-> TRUE, bytes |-> 32],
      [line |-> 436, text |-> "Di9ZVJeJrRZdQEWzAFYmfjukjR5dUQb7KMaDmv34rNJg",
       len |-> 44, base58 |-> TRUE, bytes |-> 32],
      [line |-> 438, text |-> "2gWf5xLAzZaKX9tQj9vuXsaxTWtzTZDFRn21J3zjNVgu",
       len |-> 44, base58 |-> TRUE, bytes |-> 32],
      [line |-> 440, text |-> "Ai9AuTfGncuFxEknjZT4HU21Rkv98M1QyXpbW9Xct6LK",
       len |-> 44, base58 |-> TRUE, bytes |-> 32],
      [line |-> 442, text |-> "82dGS7Jt4Km8ZgwZVRsJ2V6vPXEhVdgDaMP7cqPGG1TW",
       len |-> 44, base58 |-> TRUE, bytes |-> 32],
      [line |-> 444, text |-> "D36r7C1FeBUARN7f6mkzdX67UJ1b1nUJKC7SWBpDNWsa",
       len |-> 44, base58 |-> TRUE, bytes |-> 32],
      [line |-> 446, text |-> "5tu3xkmLfud5BAwSuQke4WSjoHcQ52SbrPwX9es8j6Ve",
       len |-> 44, base58 |-> TRUE, bytes |-> 32],
      [line |-> 448, text |-> "4MmJVdwYN8LwvbGeCowYjSx7KoEi6BJWg8XXnW4fDDp6",
       len |-> 44, base58 |-> TRUE, bytes |-> 32],
      [line |-> 450, text |-> "CPNEkz5SaAcWqGMezXTti39ekErzMpDCtuPMGw9tt4CZ",
       len |-> 44, base58 |-> TRUE, bytes |-> 32],
      [line |-> 452, text |-> "s1aysqpEyZyijPybUV89oBGeooXrR22wMNLjnG2SWJA",
       len |-> 43, base58 |-> TRUE, bytes |-> 32],
      [line |-> 454, text |-> "FhVcYNEe58SMtxpZGnTu2kpYJrTu2vwCZDGpPLqbd2yG",
       len |-> 44, base58 |-> TRUE, bytes |-> 32],
      [line |-> 456, text |-> "MangoCzJ36AjZyKwVj3VnYU4GTonjfVEnJmvvWaxLac",
       len |-> 43, base58 |-> TRUE, bytes |-> 32],
      [line |-> 458, text |-> "4MangoMjqJ2firMokCjjGgoK8d4MXcrgL7XJaL3w6fVg",
       len |-> 44, base58 |-> TRUE, bytes |-> 32],
      [line |-> 460, text |-> "FP4PxqHTVzeG2c6eZd7974F9WvKUSdBeduUK3rjYyvBw",
       len |-> 44, base58 |-> TRUE, bytes |-> 32],
      [line |-> 462, text |-> "GqTPL6qRf5aUuqscLh8Rg2HTxPUXfhhAXDptTLhp1t2J",
       len |-> 44, base58 |-> TRUE, bytes |-> 32],
      [line |-> 464, text |-> "FLASH6Lo6h3iasJKWDs2F8TkW2UKf3s15C8PMGuVfgBn",
       len |-> 44, base58 |-> TRUE, bytes |-> 32],
      [line |-> 466, text |-> "81xGAvJ27ZeRThU2JEfKAUeT4Fx6qCCd8WHZpujZbiiG",
       len |-> 44, base58 |-> TRUE, bytes |-> 32],
      [line |-> 468, text |-> "C2S18CZ7hkRV31pSYxANpSrjaZ6mxVJGZrSesL13x2FJ",
       len |-> 44, base58 |-> TRUE, bytes |-> 32],
      [line |-> 470, text |-> "EHBN9YKtMmrZhj8JZqyBQRGqyyeHw5xUB1Q5eAHszuMt",
       len |-> 44, base58 |-> TRUE, bytes |-> 32],
      [line |-> 472, text |-> "NXFiKimQN3QSL3CDhCXddyVmLfrai8HK36bHKaAzK7g",
       len |-> 43, base58 |-> TRUE, bytes |-> 32],
      [line |-> 474, text |-> "xQgT5G6Cf7k6c1YJ7T9e7czdXkmQD1nHH3hdc7w82Wu",
       len |-> 43, base58 |-> TRUE, bytes |-> 32],
      [line |-> 476, text |-> "FWbbZXbfRncNJKy5CnNKykKq4v7qESuykE3KvNodnsFe",
       len |-> 44, base58 |-> TRUE, bytes |-> 32],
      [line |-> 478, text |-> "BAsnXPVYuvZDfEFR7tmu9sG9gPyHy58Jpjs2AuUw1FLx",
       len |-> 44, base58 |-> TRUE, bytes |-> 32],
      [line |-> 480, text |-> "dRiftyHA39MWEi3m9aunc5MzRF1JYuBsbn6VPcn33UH",
       len |-> 43, base58 |-> TRUE, bytes |-> 32],
      [line |-> 482, text |-> "6W9yiHDCW9EpropkFV8R3rPiL8LVWUHSiys3YeW6AT6S",
       len |-> 44, base58 |-> TRUE, bytes |-> 32],
      [line |-> 484, text |-> "Bzjkrm1bFwVXUaV9HTnwxFrPtNso7dnwPQamhqSxtuhZ",
       len |-> 44, base58 |-> TRUE, bytes |-> 32],
      [line |-> 486, text |-> "CU4eFxpyCGNDEXN27Jonn7RfgwBt3cnp7TcTrJF6EW9Q",
       len |-> 44, base58 |-> TRUE, bytes |-> 32],
      [line |-> 488, text |-> "DriFtupJYLTosbwoN8koMbEYSx54aFAVLddWsbksjwg7",
       len |-> 44, base58 |-> TRUE, bytes |-> 32],
      [line |-> 490, text |-> "JCNCMFXo5M5qwUPg2Utu1u6YWp3MbygxqBsBeXXJfrw",
       len |-> 43, base58 |-> TRUE, bytes |-> 32],
      [line |-> 492, text |-> "GXWqPpjQpdz7KZw9p7f5PX2eGxHAhvpNXiviFkAB8zXg",
       len |-> 44, base58 |-> TRUE, bytes |-> 32],
      [line |-> 494, text |-> "Bt2WPMmbwHPk36i4CRucNDyLcmoGdC7xEdrVuxgJaNE6",
       len |-> 44, base58 |-> TRUE, bytes |-> 32],
      [line |-> 496, text |-> "4bcFeLv4nydFrsZqV5CgwCVrPhkQKsXtzfy2KyMz7ozM",
       len |-> 44, base58 |-> TRUE, bytes |-> 32],
      [line |-> 498, text |-> "stkTLPiBsQBUxDhXgxxsTRtxZ38TLqsqhoMvKMSt8Th",
       len |-> 43, base58 |-> TRUE, bytes |-> 32],
      [line |-> 500, text |-> "5JQ8Mhdp2wv3HWcfjq9Ts8kwzCAeBADFBDAgBznzRsE4",
       len |-> 44, base58 |-> TRUE, bytes |-> 32],
      [line |-> 502, text |-> "TuLipcqtGVXP9XR62wM8WWCm6a9vhLs7T1uoWBk6FDs",
       len |-> 43, base58 |-> TRUE, bytes |-> 32],
      [line |-> 504, text |-> "RAtEwzA1rerjeWip6uMuheQtzykxYCrEQRaSFCCrf2D",
       len |-> 43, base58 |-> TRUE, bytes |-> 32],
      [line |-> 506, text |-> "93KT94uivk9egZVPReW27pmUpiBsHhSV11AmUuSExUVU",
       len |-> 44, base58 |-> TRUE, bytes |-> 32],
      [line |-> 508, text |-> "EmLhAPj7J6LTAnomsLfZUKDtb4t2A8e6eofDSfTwMgkY",
       len |-> 44, base58 |-> TRUE, bytes |-> 32],
      [line |-> 510, text |-> "DY3Rw6BZwf6epvWnVo8DSV6kYptEdCh7HbYmFRpdPxuH",
       len |-> 44, base58 |-> TRUE, bytes |-> 32],
      [line |-> 512, text |-> "3CppdkMFxuz7ASS27pB35EDbwgfUhwrarFYuWDBWWwHB",
       len |-> 44, base58 |-> TRUE, bytes |-> 32],
      [line |-> 514, text |-> "Grk7mshVug1TafphUvuYBrzwRqadtmCcf7GGPoPKkgs6",
       len |-> 44, base58 |-> TRUE, bytes |-> 32],
      [line |-> 516, text |-> "BpYbhwDZGpPvcKw3cSh5f9UqRaHfuxgz3avW9g324LUz",
       len |-> 44, base58 |-> TRUE, bytes |-> 32],
      [line |-> 518, text |-> "4nyfJ4JBsRJLij7VGCVUeHwKSLAAku66ptJamoodY29L",
       len |-> 44, base58 |-> TRUE, bytes |-> 32],
      [line |-> 520, text |-> "6opMSfkHgWsvG5KmZo8y2DuShaDHwXfB6VUuTx6W4Age",
       len |-> 44, base58 |-> TRUE, bytes |-> 32],
      [line |-> 522, text |-> "4Ejjk5w7HAWvmXYT57s5uwn8rs7i61nbpcTRQ9ABB11M",
       len |-> 44, base58 |-> TRUE, bytes |-> 32],
      [line |-> 524, text |-> "4xq7VjrJCU2Smk5JcJToik5hiEJ8RCvECReePP8Jg6q8",
       len |-> 44, base58 |-> TRUE, bytes |-> 32],
      [line |-> 526, text |-> "B2YeVM6Kf3SKYLuH2nfucCmZwy8KJcQpd9e9JEuwv9mt",
       len |-> 44, base58 |-> TRUE, bytes |-> 32],
      [line |-> 528, text |-> "8DeQth4AWPXauRfgAEUy9WpHuyKKyYuNNsH76C5v1Hv7",
       len |-> 44, base58 |-> TRUE, bytes |-> 32],
      [line |-> 530, text |-> "FS7TTuJejy7zjkdJXD9BjeLFZ44ipxxr2qmMMUKMZv6y",
       len |-> 44, base58 |-> TRUE, bytes |-> 32],
      [line |-> 532, text |-> "6K8yrdpm2dVaLSLpqoRJKv7SNuP54xmbv5KULcJzKTHc",
       len |-> 44, base58 |-> TRUE, bytes |-> 32],
      [line |-> 534, text |-> "HWe92F97ywdp9TahubeWWWXk5uMHeyYG6AVGLBXAgZp5",
       len |-> 44, base58 |-> TRUE, bytes |-> 32],
      [line |-> 536, text |-> "E3tsfhxsoD4FkWzipVXoRFHQZCH7ADm8iVWCpLCm7VaR",
       len |-> 44, base58 |-> TRUE, bytes |-> 32],
      [line |-> 538, text |-> "FqX68sM8mLVjzixrj3KJ5CCybDet1HD859CNRCNtyWHw",
       len |-> 44, base58 |-> TRUE, bytes |-> 32],
      [line |-> 540, text |-> "ATojCiLv5EoX9GZBkDQZdmhtYzwSJfPquEs9WpVn3yHF",
       len |-> 44, base58 |-> TRUE, bytes |-> 32],
      [line |-> 542, text |-> "3PqNhPLhrZKuRAoej5gStxGKqwp2CByznA5fjc38Dj4C",
       len |-> 44, base58 |-> TRUE, bytes |-> 32],
      [line |-> 544, text |-> "C59QVvteGSt6nkgRiCbmB22HrM5w3GKvivKC5LvTa5ac",
       len |-> 44, base58 |-> TRUE, bytes |-> 32],
      [line |-> 546, text |-> "5QQ6Eu8i7D4NYSEs1SitZXVqoB6hpTMmaWZWsSW7Wiwb",
       len |-> 44, base58 |-> TRUE, bytes |-> 32],
      [line |-> 548, text |-> "Ayq7bKZ1FWKhXubUq98hQfqUYcHEbEVYzn6H5cB18G2Z",
       len |-> 44, base58 |-> TRUE, bytes |-> 32],
      [line |-> 550, text |-> "HajXYaDXmohtq2ZxZ6QVNEpqNn1T53Zc9FnR1CnaNnUf",
       len |-> 44, base58 |-> TRUE, bytes |-> 32],
      [line |-> 552, text |-> "PmmPGJnGKLRTaGpDXVEXhfgDDkc4DJbApA1eKUWJPMM",
       len |-> 43, base58 |-> TRUE, bytes |-> 32],
      [line |-> 554, text |-> "CJM5Un8AhMgLJv2mcj3o5z2z8H3deDzLA1TH7E3WhZQG",
       len |-> 44, base58 |-> TRUE, bytes |-> 32],
      [line |-> 556, text |-> "9Zmn9v5A2YWUQj47bkEmcnc37ZsYe83rsRK8VV2j1UqX",
       len |-> 44, base58 |-> TRUE, bytes |-> 32],
      [line |-> 558, text |-> "4KvPuh1wG8j1pLnZUC5CuqTm2a41PWNtik1NwpLoRquE",
       len |-> 44, base58 |-> TRUE, bytes |-> 32],
      [line |-> 560, text |-> "Hcs63usAc6cxWccycrVwx1mrNgNSpUZaUgFm7Lw9tSkR",
       len |-> 44, base58 |-> TRUE, bytes |-> 32],
      [line |-> 562, text |-> "ARLwHJ3CYLkVTeW3nHvPBmGQ7SLQdhZbAkWHzYrq57rt",
       len |-> 44, base58 |-> TRUE, bytes |-> 32],
      [line |-> 564, text |-> "FyH3qGRQSG7AmdEsPEVDxdJJLnLhAn3CZ48acQU34LFr",
       len |-> 44, base58 |-> TRUE, bytes |-> 32],
      [line |-> 566, text |-> "MzEPFp2LwCSMMPHLQsqfE7SN6xkPHZ8Uym2HfrH7g5P",
       len |-> 43, base58 |-> TRUE, bytes |-> 32],
      [line |-> 568, text |-> "CMiyE7M98DSPBEhQGTA6CzNodWkNuuW4y9HoocfK75nG",
       len |-> 44, base58 |-> TRUE, bytes |-> 32],
      [line |-> 570, text |-> "CnaXXuzc2S5UFSGoBRuKVNnzXBvxbaMwq6hZu5m91CAV",
       len |-> 44, base58 |-> TRUE, bytes |-> 32],
      [line |-> 572, text |-> "3Nkctq19AW7gs5hkxixUDjS9UVjmCwcNCo7rqPpub87c",
       len |-> 44, base58 |-> TRUE, bytes |-> 32],
      [line |-> 574, text |-> "41Y8C4oxk4zgJT1KXyQr35UhZcfsp5mP86Z2G7UUzojU",
       len |-> 44, base58 |-> TRUE, bytes |-> 32],
      [line |-> 576, text |-> "EuSLjg23BrtwYAk1t4TFe5ArYSXCVXLBqrHRBfWQiTeJ",
       len |-> 44, base58 |-> TRUE, bytes |-> 32],
      [line |-> 578, text |-> "BVddkVtFJLCihbVrtLo8e3iEd9NftuLunaznAxFFW8vf",
       len |-> 44, base58 |-> TRUE, bytes |-> 32],
      [line |-> 580, text |-> "ENr5e1BMN5vFUHf4iCCPzR4GjWCKgtHnQcdniRQqMdEL",
       len |-> 44, base58 |-> TRUE, bytes |-> 32],
      [line |-> 582, text |-> "2r81MPMDjGSrbmGRwzDg6aqhe3t3vbKcrYfpes5bXckS",
       len |-> 44, base58 |-> TRUE, bytes |-> 32],
      [line |-> 584, text |-> "85XuR4kE5yxp1hk91WHAawinXZsuJowxy59STYYpM9pK",
       len |-> 44, base58 |-> TRUE, bytes |-> 32],
      [line |-> 586, text |-> "CxL8eQmGhN9LKSoHj7bU95JekFPtyZoUc57mbehb5A56",
       len |-> 44, base58 |-> TRUE, bytes |-> 32],
      [line |-> 588, text |-> "4cvgasNfbJ36yeMVJSkscgL2Yco9dFGdj52Wrg91fmHv",
       len |-> 44, base58 |-> TRUE, bytes |-> 32],
      [line |-> 590, text |-> "7ngzeBygEksaBvKzHEeihqoLpDpWqTNRMVh2wCyb6NP8",
       len |-> 44, base58 |-> TRUE, bytes |-> 32],
      [line |-> 592, text |-> "CZU38L2NyL6tqFxzYAGYkmkf2JG98tZfZ2CnUapVgXQe",
       len |-> 44, base58 |-> TRUE, bytes |-> 32],
      [line |-> 594, text |-> "DUW6uWcrsjYmsYDjp9iGDN4JdRa2MqznjuxjKVok5Fsj",
       len |-> 44, base58 |-> TRUE, bytes |-> 32],
      [line |-> 596, text |-> "Fd3k4c6Dv7m9673ae87P6duQrftY9UVfwiCxngNbJrUQ",
       len |-> 44, base58 |-> TRUE, bytes |-> 32],
      [line |-> 598, text |-> "9BMEyctGvajEubk5iCRBnM9fkeTXUhrxaweYq34jZdC8",
       len |-> 44, base58 |-> TRUE, bytes |-> 32],
      [line |-> 600, text |-> "6DFDj66PbPoTC16Sh51MJijoTTMYCbMCVC85tnc5UfQ3",
       len |-> 44, base58 |-> TRUE, bytes |-> 32],
      [line |-> 602, text |-> "HTLvAjqc6Wkzh4i4QNLHhQHZAnrtVvkGyYeyCiUWLe9b",
       len |-> 44, base58 |-> TRUE, bytes |-> 32],
      [line |-> 604, text |-> "CYUyHzu6Z3JyBhfkQpZZwWqa2zpcmzaK1xXS96n8ea1U",
       len |-> 44, base58 |-> TRUE, bytes |-> 32],
      [line |-> 606, text |-> "ZETAxsqBRek56DhiGXrn75yj2NHU3aYUnxvHXpkf3aD",
       len |-> 43, base58 |-> TRUE, bytes |-> 32],
      [line |-> 608, text |-> "DdGHYzBoTGJJZ4Npy1AHVuyZsfX89ShauiukqMt8sPRw",
       len |-> 44, base58 |-> TRUE, bytes |-> 32],
      [line |-> 610, text |-> "A1KLoBrKBde8Ty9qtNQUtq3C2ortoC3u7twggz7blacklisted_accountso6",
       len |-> 61, base58 |-> FALSE, bytes |-> 0],
      [line |-> 614, text |-> "KMNo3nJsBXfcpJTVhZcXLW7RmTwTt4GVFE7suUBo9sS",
       len |-> 43, base58 |-> TRUE, bytes |-> 32],
      [line |-> 616, text |-> "JUPyiwrYJFskUPiHa7hkeR8VUtAeFoSYbKedZNsDvCN",
       len |-> 43, base58 |-> TRUE, bytes |-> 32],
      [line |-> 618, text |-> "DriFtupJYLTosbwoN8koMbEYSx54aFAVLddWsbksjwg7",
       len |-> 44, base58 |-> TRUE, bytes |-> 32],
      [line |-> 620, text |-> "SLNDpmoWTVADgEdndyvWzroNL7zSi1dF9PC3xHGtPwp",
       len |-> 43, base58 |-> TRUE, bytes |-> 32],
      [line |-> 622, text |-> "4LLbsb5ReP3yEtYzmXewyGjcir5uXtKFURtaEUVC2AHs",
       len |-> 44, base58 |-> TRUE, bytes |-> 32],
      [line |-> 624, text |-> "MangoCzJ36AjZyKwVj3VnYU4GTonjfVEnJmvvWaxLac",
       len |-> 43, base58 |-> TRUE, bytes |-> 32],
      [line |-> 626, text |-> "PRT88RkA4Kg5z7pKnezeNH4mafTvtQdfFgpQTGRjz44",
       len |-> 43, base58 |-> TRUE, bytes |-> 32],
      [line |-> 628, text |-> "TuLipcqtGVXP9XR62wM8WWCm6a9vhLs7T1uoWBk6FDs",
       len |-> 43, base58 |-> TRUE, bytes |-> 32],
      [line |-> 630, text |-> "HBB111SCo9jkCejsZfz8Ec8nH7T6THF8KEKSnvwT6XK6",
       len |-> 44, base58 |-> TRUE, bytes |-> 32],
      [line |-> 632, text |-> "8twuNzMszqWeFbDErwtf4gw13E6MUS4Hsdx5mi3aqXAM",
       len |-> 44, base58 |-> TRUE, bytes |-> 32],
      [line |-> 634, text |-> "SUNNYWgPQmFxe9wTZzNK7iPnJ3vYDrkgnxJRJm1s3ag",
       len |-> 43, base58 |-> TRUE, bytes |-> 32],
      [line |-> 636, text |-> "Lrxqnh6ZHKbGy3dcrCED43nsoLkM1LTzU2jRfWe8qUC",
       len |-> 43, base58 |-> TRUE, bytes |-> 32],
      [line |-> 638, text |-> "DUALa4FC2yREwZ59PHeu1un4wis36vHRv5hWVBmzykCJ",
       len |-> 44, base58 |-> TRUE, bytes |-> 32],
      [line |-> 640, text |-> "PoRTjZMPXb9T7dyU7tpLEZRQj7e6ssfAE62j2oQuc6y",
       len |-> 43, base58 |-> TRUE, bytes |-> 32],
      [line |-> 642, text |-> "APTtJyaRX5yGTsJU522N4VYWg3vCvSb65eam5GrPT5Rt",
       len |-> 44, base58 |-> TRUE, bytes |-> 32]
    >>

\* Pubkey::from_str as called at tpu.rs 361-642: Err for a string of more
\* than 44 characters, for one that is not base58, and for one that does
\* not decode to 32 bytes
from_str(lit) ==
    IF lit.len > 44 \/ ~lit.base58 \/ lit.bytes # 32 THEN "Err" ELSE "Ok"

\* u64::saturating_mul
saturating_mul(a, b) == IF a * b > U64_MAX THEN U64_MAX ELSE a * b

\* u64::saturating_div (the divisor is the literal 10)
saturating_div(a, b) == a \div b

\* tpu.rs 352-357
\* a bug: the 80% are rounded up
ReservedTicksCeil(tps) == saturating_div(saturating_mul(tps, 8) + 9, 10)

ReservedTicksOf(tps) == saturating_div(saturating_mul(tps, 8), 10)

NewInit ==
    /\ new_step = 1
    /\ new_state = "running"
    /\ new_panic = 0
    /\ started = {}
    /\ blacklisted_accounts = {}
    /\ literals_done = 0

\* the arguments of Tpu::new that the model follows:
\* poh_recorder.ticks_per_slot() and preallocated_bundle_cost
NewArguments ==
    /\ tick_height = 0
    /\ ticks_per_slot \in 0..U64_MAX
    /\ reserved_ticks = 0
    /\ preallocated_bundle_cost \in 0..MaxCost
    /\ reservation = <<>>
    /\ slot_tick = 0

\* a constructor that spawns the stage's threads and cannot fail
\* (tpu.rs 176, 191, 281, 286, 302, 313, 321, 330)
NewStartStage ==
    /\ new_state = "running"
    /\ new_step <= Len(NewSteps)
    /\ NewSteps[new_step].kind = "stage"
    /\ started' = started \cup {NewSteps[new_step].name}
    /\ new_step' = new_step + 1
    /\ UNCHANGED <<new_state, new_panic, blacklisted_accounts, literals_done>>
    /\ UNCHANGED resVars
    /\ UNCHANGED notNew

\* spawn_server_multi(..).unwrap() (tpu.rs 208-230, 233-252, 255-277):
\* the server thread runs, or the Err makes unwrap panic
NewSpawnServer ==
    /\ new_state = "running"
    /\ new_step <= Len(NewSteps)
    /\ NewSteps[new_step].kind = "spawn"
    /\ \E spawned \in BOOLEAN :
         IF spawned
         THEN /\ started' = started \cup {NewSteps[new_step].name}
              /\ new_step' = new_step + 1
              /\ UNCHANGED <<new_state, new_panic>>
         ELSE /\ new_state' = "panicked"
              /\ new_panic' = NewSteps[new_step].line
              /\ UNCHANGED <<started, new_step>>
    /\ UNCHANGED <<blacklisted_accounts, literals_done>>
    /\ UNCHANGED resVars
    /\ UNCHANGED notNew

\* tpu.rs 352-357
NewReservedTicks ==
    /\ new_state = "running"
    /\ new_step <= Len(NewSteps)
    /\ NewSteps[new_step].kind = "reserved"
    /\ reserved_ticks' = ReservedTicksOf(ticks_per_slot)
    /\ new_step' = new_step + 1
    /\ UNCHANGED <<new_state, new_panic, started, blacklisted_accounts, literals_done>>
    /\ UNCHANGED <<tick_height, ticks_per_slot, preallocated_bundle_cost, reservation,
                   slot_tick>>
    /\ UNCHANGED notNew

\* tpu.rs 359-360
NewBlacklistTip ==
    /\ new_state = "running"
    /\ new_step <= Len(NewSteps)
    /\ NewSteps[new_step].kind = "tip"
    /\ blacklisted_accounts' = {"tip_payment_program_id"}
    /\ new_step' = new_step + 1
    /\ UNCHANGED <<new_state, new_panic, started, literals_done>>
    /\ UNCHANGED resVars
    /\ UNCHANGED notNew

\* tpu.rs 361-642: the next literal is parsed, unwrapped and inserted
NewBlacklistInsert ==
    /\ new_state = "running"
    /\ new_step <= Len(NewSteps)
    /\ NewSteps[new_step].kind = "literals"
    /\ literals_done < Len(BlacklistLiterals)
    /\ LET lit == BlacklistLiterals[literals_done + 1] IN
         IF from_str(lit) = "Ok"
         THEN /\ blacklisted_accounts' = blacklisted_accounts \cup {lit.text}
              /\ literals_done' = literals_done + 1
              /\ UNCHANGED <<new_state, new_panic>>
         ELSE /\ new_state' = "panicked"
              /\ new_panic' = lit.line
              /\ UNCHANGED <<blacklisted_accounts, literals_done>>
    /\ UNCHANGED <<new_step, started>>
    /\ UNCHANGED resVars
    /\ UNCHANGED notNew

\* The statements after the list (BankingStage::new at tpu.rs 643 and what
\* follows it) are reached only once every literal has been inserted; the
\* literal of line 610 never is, so they have no action here.
NewNext ==
    \/ NewStartStage
    \/ NewSpawnServer
    \/ NewReservedTicks
    \/ NewBlacklistTip
    \/ NewBlacklistInsert

(***************************************************************************)
(* Shutdown of the running pipeline                                        *)
(*                                                                         *)
(* Tpu::new fixes which stages are handed the exit flag and which stages   *)
(* hold a sender of which channel.  A stage's loop lives in its own file;  *)
(* it is modelled from the scheduling model of the design (section 5): a   *)
(* stage runs until it observes the flag or until its input queue is       *)
(* permanently closed.                                                     *)
(***************************************************************************)
\* the stages handed exit.clone() (tpu.rs 180, 192, 218, 243, 265, 308, 318,
\* 327, 331, 675, 689, 701)
ExitHolders ==
    {"fetch_stage", "staked_nodes_updater_service", "tpu_vote_quic_t",
     "tpu_quic_t", "tpu_forwards_quic_t", "block_engine_stage",
     "fetch_stage_manager", "relayer_stage", "cluster_info_vote_listener",
     "bundle_stage", "tpu_entry_notifier", "broadcast_stage"}

\* a bug: struct Tpu keeps a clone of packet_sender of its own
PacketSendersKept ==
    {"block_engine_stage", "fetch_stage_manager", "relayer_stage", "Tpu"}

\* the holders of packet_sender (tpu.rs 306, 317, 325): the original is moved
\* into RelayerStage::new, nothing of it stays in Tpu::new
PacketSenders ==
    {"block_engine_stage", "fetch_stage_manager", "relayer_stage"}

\* channel -> the stages that hold one of its senders once Tpu::new is over
\* (tpu.rs 182, 217; 282, 307, 326; 287; 333)
Senders ==
    [packet      |-> PacketSenders,
     vote_packet |-> {"fetch_stage", "tpu_vote_quic_t"},
     non_vote    |-> {"sigverify_stage", "block_engine_stage", "relayer_stage"},
     tpu_vote    |-> {"vote_sigverify_stage"},
     gossip_vote |-> {"cluster_info_vote_listener"}]

\* the stages that are not handed the flag -> the channels they read
\* (tpu.rs 281-284, 286-294, 643-666)
Inputs ==
    [sigverify_stage      |-> {"packet"},
     vote_sigverify_stage |-> {"vote_packet"},
     banking_stage        |-> {"non_vote", "tpu_vote", "gossip_vote"}]

\* every sender of the channel has been dropped with its thread
Closed(c) == Senders[c] \subseteq terminated

\* the pipeline as Tpu::new would return it: no thread has panicked, the two
\* optional handles may be absent
ShutdownInit ==
    /\ exit = FALSE
    /\ terminated = {}
    /\ outcome \in {[h \in Handles |->
                        IF h = "tpu_entry_notifier" THEN n
                        ELSE IF h = "tracer_thread_hdl" THEN t
                        ELSE "Ok"] : n \in {"None", "Ok"}, t \in {"None", "OkOk"}}
    /\ joined = {}
    /\ results = <<>>
    /\ broadcast_result = <<>>
    /\ join_pc = "results"
    /\ join_ret = <<>>
    /\ logged = FALSE

ShutdownIdle ==
    /\ exit = FALSE
    /\ terminated = {}

\* the supervising layer stores true into the flag
SetExit ==
    /\ ~exit
    /\ exit' = TRUE
    /\ UNCHANGED <<terminated, joinVars>>
    /\ UNCHANGED notShut

\* a stage that was handed the flag observes it and its thread ends
StageObservesExit(h) ==
    /\ h \in (ExitHolders \cap Owned) \ terminated
    /\ exit
    /\ terminated' = terminated \cup {h}
    /\ UNCHANGED <<exit, joinVars>>
    /\ UNCHANGED notShut

\* a stage without the flag ends once every channel it reads is closed
StageInputClosed(h) ==
    /\ h \in DOMAIN Inputs
    /\ h \notin terminated
    /\ \A c \in Inputs[h] : Closed(c)
    /\ terminated' = terminated \cup {h}
    /\ UNCHANGED <<exit, joinVars>>
    /\ UNCHANGED notShut

\* the tracer thread is created outside Tpu::new; like every stage it reads
\* the flag
TracerObservesExit ==
    /\ outcome["tracer_thread_hdl"] # "None"
    /\ "tracer_thread_hdl" \notin terminated
    /\ exit
    /\ terminated' = terminated \cup {"tracer_thread_hdl"}
    /\ UNCHANGED <<exit, joinVars>>
    /\ UNCHANGED notShut

\* JoinHandle::join blocks until the thread has ended
BlockingJoinResults ==
    /\ join_pc = "results"
    /\ JoinOrder[Len(results) + 1] \in terminated
    /\ JoinResults

BlockingJoinBroadcast ==
    /\ "broadcast_stage" \in terminated
    /\ JoinBroadcast

BlockingJoinEntryNotifier ==
    /\ outcome["tpu_entry_notifier"] # "None" => "tpu_entry_notifier" \in terminated
    /\ JoinEntryNotifier

BlockingJoinTracer ==
    /\ outcome["tracer_thread_hdl"] # "None" => "tracer_thread_hdl" \in terminated
    /\ JoinTracer

\* Tpu::join called on the running pipeline (tpu.rs 732-765)
BlockingJoin ==
    \/ BlockingJoinResults
    \/ BlockingJoinBroadcast
    \/ ExamineResults
    \/ BlockingJoinEntryNotifier
    \/ ExamineBroadcast
    \/ BlockingJoinTracer

StageStops ==
    \/ \E h \in ExitHolders : StageObservesExit(h)
    \/ \E h \in DOMAIN Inputs : StageInputClosed(h)
    \/ TracerObservesExit

ShutdownNext ==
    \/ SetExit
    \/ StageStops
    \/ BlockingJoin

JoinNext ==
    \/ JoinResults
    \/ JoinBroadcast
    \/ ExamineResults
    \/ JoinEntryNotifier
    \/ ExamineBroadcast
    \/ JoinTracer

ReservationNext ==
    \/ QueryReservation
    \/ RegisterTick

(***************************************************************************)
(* The specifications                                                      *)
(***************************************************************************)
InitReservation == ReservationInit /\ JoinIdle /\ GateInit /\ NewInit /\ ShutdownIdle

SpecReservation == InitReservation /\ [][ReservationNext]_vars

InitJoin == JoinInit /\ ReservationIdle /\ GateInit /\ NewInit /\ ShutdownIdle

SpecJoin == InitJoin /\ [][JoinNext]_vars

InitGate == GateInit /\ JoinIdle /\ ReservationIdle /\ NewInit /\ ShutdownIdle

SpecGate == InitGate /\ [][GateNext]_vars

\* the FetchStageManager's thread keeps running: each of its steps is taken
\* if it stays possible; the transports and the relayer owe nothing
SpecGateFair ==
    /\ InitGate
    /\ [][GateFairNext]_vars
    /\ WF_vars(GateRecvPacket)
    /\ WF_vars(GateRecvHeartbeat)
    /\ WF_vars(GateTimeout)

InitNew == NewInit /\ NewArguments /\ JoinIdle /\ GateInit /\ ShutdownIdle

SpecNew == InitNew /\ [][NewNext]_vars

SpecVote == InitGate /\ [][VoteNext]_vars

InitShutdown == ShutdownInit /\ ReservationIdle /\ GateInit /\ NewInit

\* every thread keeps running: a stage that can end does, and so does the
\* caller of Tpu::join; the supervising layer owes nothing
SpecShutdown ==
    /\ InitShutdown
    /\ [][ShutdownNext]_vars
    /\ WF_vars(StageStops)
    /\ WF_vars(BlockingJoin)

(***************************************************************************)
(* Claims about the reservation policy (SpecReservation)                   *)
(***************************************************************************)
\* C1: for ticks_per_interval > 0 a query at tick height t yields
\* preallocated_cost when the remainder of t by ticks_per_interval is below
\* reserved_ticks, and 0 otherwise.  The remainder is stated by its defining
\* equation t = q * ticks_per_interval + r with 0 <= r < ticks_per_interval.
C1_ReservationValue ==
    (reservation # <<>> /\ ticks_per_slot > 0) =>
        \E q \in 0..reservation[1] : \E r \in 0..(ticks_per_slot - 1) :
            /\ reservation[1] = q * ticks_per_slot + r
            /\ reservation[2] = IF r < reserved_ticks
                                THEN preallocated_bundle_cost ELSE 0

\* a query in a later interval, on the last reserved tick, yields the cost
C1_Witness ==
    /\ reservation # <<>>
    /\ ticks_per_slot > 1
    /\ reservation[1] > ticks_per_slot
    /\ reservation[1] % ticks_per_slot = reserved_ticks - 1
    /\ preallocated_bundle_cost > 0
    /\ reservation[2] = preallocated_bundle_cost

\* C14: with the ticks registered one by one from the start of an interval,
\* the reservation queried before a tick is the cost for the first
\* reserved_ticks ticks of the interval and 0 for the remaining ones, and the
\* pattern starts again with the next interval; with ten ticks per slot,
\* eight reserved and a cost of 100, tick heights 0-7 yield 100, 8-9 yield 0
\* and 10 yields 100.
C14_WindowPerInterval ==
    (reservation # <<>> /\ ticks_per_slot > 0) =>
        /\ reservation[2] = IF reservation[3] < reserved_ticks
                            THEN preallocated_bundle_cost ELSE 0
        /\ (ticks_per_slot = 10 /\ reserved_ticks = 8
                /\ preallocated_bundle_cost = 100 /\ reservation[1] <= 10) =>
              reservation[2] = IF reservation[1] \in (0..7) \cup {10}
                               THEN 100 ELSE 0

\* the first tick of the second interval of that bank yields 100 again
C14_Witness ==
    /\ ticks_per_slot = 10
    /\ reserved_ticks = 8
    /\ preallocated_bundle_cost = 100
    /\ reservation = <<10, 100, 0>>

\* C15: the two degenerate settings are accepted, not errors: with
\* reserved_ticks = 0 every query yields 0, with reserved_ticks at or above
\* ticks_per_interval every query yields the cost.
C15_DegenerateWindows ==
    (reservation # <<>> /\ ticks_per_slot > 0) =>
        /\ reserved_ticks = 0 => reservation[2] = 0
        /\ reserved_ticks >= ticks_per_slot =>
              reservation[2] = preallocated_bundle_cost
        /\ reservation[2] \in {0, preallocated_bundle_cost}

\* the window covers the whole interval: the last tick of a later interval
\* still yields the cost
C15_Witness ==
    /\ reservation # <<>>
    /\ ticks_per_slot > 1
    /\ reserved_ticks >= ticks_per_slot
    /\ reservation[1] > ticks_per_slot
    /\ reservation[3] = ticks_per_slot - 1
    /\ preallocated_bundle_cost > 0
    /\ reservation[2] = preallocated_bundle_cost

(***************************************************************************)
(* Claims about Tpu::join (SpecJoin)                                       *)
(***************************************************************************)
\* C2: when join returns a failure, join has been called on every handle
\* the Tpu owns.
C2_AllJoinedBeforeFailure ==
    (join_ret # <<>> /\ join_ret[1] = "Err") => joined = Owned

\* C3: join never blocks before it returns, and when exactly one handle's
\* thread panicked the value returned is that handle's failure.
C3_SingleFailureReported ==
    /\ join_pc # "done" => ENABLED JoinNext
    /\ join_pc = "done" => join_ret # <<>>
    /\ (join_pc = "done" /\ Cardinality(Panicked) = 1) =>
           \E h \in Panicked : join_ret = <<"Err", h>>

\* the one failure is that of the broadcast stage, examined late
C3_Witness ==
    /\ join_pc = "done"
    /\ Panicked = {"broadcast_stage"}
    /\ join_ret = <<"Err", "broadcast_stage">>

\* C4: a tracer thread that joined with an inner error is logged and join
\* returns Ok; a tracer thread whose join fails makes join return that
\* failure; the tracer is joined whenever every other handle succeeded.
C4_TracerNested ==
    join_pc = "done" =>
        /\ ("tracer_thread_hdl" \in joined /\ outcome["tracer_thread_hdl"] = "OkErr")
              => (join_ret = <<"Ok">> /\ logged)
        /\ ("tracer_thread_hdl" \in joined /\ outcome["tracer_thread_hdl"] = "Err")
              => (join_ret = <<"Err", "tracer_thread_hdl">> /\ ~logged)
        /\ (Panicked \subseteq {"tracer_thread_hdl"}
            /\ outcome["tracer_thread_hdl"] # "None")
              => "tracer_thread_hdl" \in joined

\* the inner error has been logged and join returned Ok
C4_Witness ==
    /\ join_pc = "done"
    /\ outcome["tracer_thread_hdl"] = "OkErr"
    /\ "tracer_thread_hdl" \in joined
    /\ logged
    /\ join_ret = <<"Ok">>

\* the value join returns when no entry notifier is held: the first failure
\* among the thirteen, then the broadcast stage, then the tracer's outer join
ResultWithoutNotifier ==
    IF \E i \in 1..Len(JoinOrder) : outcome[JoinOrder[i]] = "Err"
    THEN <<"Err", JoinOrder[CHOOSE i \in 1..Len(JoinOrder) :
                      /\ outcome[JoinOrder[i]] = "Err"
                      /\ \A j \in 1..(i - 1) : outcome[JoinOrder[j]] # "Err"]>>
    ELSE IF outcome["broadcast_stage"] = "Err" THEN <<"Err", "broadcast_stage">>
    ELSE IF outcome["tracer_thread_hdl"] = "Err" THEN <<"Err", "tracer_thread_hdl">>
    ELSE <<"Ok">>

\* C5: a failing entry notifier always makes join fail, and its failure is
\* the one returned whatever the broadcast stage and the tracer (examined
\* after it) yield; without a notifier the result is fixed by the others.
C5_NotifierPriority ==
    join_pc = "done" =>
        /\ outcome["tpu_entry_notifier"] = "Err" => join_ret[1] = "Err"
        /\ (outcome["tpu_entry_notifier"] = "Err"
            /\ \A h \in ListedStages : outcome[h] = "Ok")
              => join_ret = <<"Err", "tpu_entry_notifier">>
        /\ outcome["tpu_entry_notifier"] = "None" => join_ret = ResultWithoutNotifier

\* notifier and broadcast stage both failed: the notifier's failure is returned
C5_Witness ==
    /\ join_pc = "done"
    /\ outcome["tpu_entry_notifier"] = "Err"
    /\ outcome["broadcast_stage"] = "Err"
    /\ join_ret = <<"Err", "tpu_entry_notifier">>

(***************************************************************************)
(* Claims about the interception gate (SpecGate, SpecGateFair)             *)
(***************************************************************************)
\* C6: the mode starts as Direct; every change of the mode is either
\* Direct -> Relayed with a heartbeat taken from the channel, or
\* Relayed -> Direct on a timeout (no heartbeat waiting, none taken); a step
\* that puts a batch on or takes one off the primary ingress keeps the mode.
C6_ModeTransitions ==
    /\ mode = "Direct"
    /\ [][/\ mode' # mode =>
               \/ /\ mode = "Direct" /\ mode' = "Relayed"
                  /\ heartbeat' = heartbeat - 1
                  /\ gate_event' = "heartbeat"
               \/ /\ mode = "Relayed" /\ mode' = "Direct"
                  /\ heartbeat = 0 /\ heartbeat' = 0
                  /\ gate_event' = "timeout"
          /\ packet_intercept' # packet_intercept => mode' = mode]_vars

\* the gate has gone Direct -> Relayed -> Direct and received a batch
C6_Witness ==
    /\ mode = "Direct"
    /\ gate_event = "packet"
    /\ heartbeats_sent > 0
    /\ heartbeat = 0
    /\ \E i \in 1..Len(gate_seen) : gate_seen[i][2] = "Relayed"
    /\ gate_seen[Len(gate_seen)][2] = "Direct"

\* the batches of a sequence of <<batch, mode>> entries
BatchesOf(es) == [i \in 1..Len(es) |-> es[i][1]]

\* C7: the primary-ingress batches sent towards the verification stage are
\* exactly the batches the gate received while Direct, unchanged and in the
\* order of their arrival; a batch received while Relayed was never sent
\* there; what is on the queue has been sent; after a timeout the gate is
\* Direct (so the next batch is forwarded).
C7_RelayedDroppedDirectForwarded ==
    /\ SelectSeq(packet_log, IsIngress) = BatchesOf(SelectSeq(gate_seen, IsDirect))
    /\ \A i \in 1..Len(gate_seen) :
          gate_seen[i][2] = "Relayed" =>
              /\ \A j \in 1..Len(packet_log) : packet_log[j] # gate_seen[i][1]
              /\ \A j \in 1..Len(packet) : packet[j] # gate_seen[i][1]
    /\ \A j \in 1..Len(packet) : \E k \in 1..Len(packet_log) : packet_log[k] = packet[j]
    /\ gate_event = "timeout" => mode = "Direct"

\* a batch was dropped while Relayed and, after the timeout, a later one
\* was forwarded
C7_Witness ==
    \E i, j \in 1..Len(gate_seen) :
        /\ i < j
        /\ gate_seen[i][2] = "Relayed"
        /\ gate_seen[j][2] = "Direct"
        /\ \E k \in 1..Len(packet_log) : packet_log[k] = gate_seen[j][1]
        /\ \A k \in 1..Len(packet_log) : packet_log[k] # gate_seen[i][1]

\* C8: once the relayer has dropped heartbeat_tx the gate comes to be Direct
\* and stays so, and every batch then waiting on the primary ingress is
\* received by the gate and sent on towards the verification stage.
C8_ClosedHeartbeatChannel ==
    /\ (~heartbeat_tx) ~> [](mode = "Direct")
    /\ \A n \in 1..(MaxBatches + 1) : \A src \in PrimaryIngress :
          (/\ ~heartbeat_tx /\ heartbeat = 0 /\ mode = "Direct"
           /\ \E i \in 1..Len(packet_intercept) : packet_intercept[i] = <<src, n>>)
          ~> (\E k \in 1..Len(packet_log) : packet_log[k] = <<src, n>>)

\* the channel was closed while the gate was Relayed; the gate has since
\* become Direct and forwarded a batch
C8_Witness ==
    /\ ~heartbeat_tx
    /\ hb_closed_mode = "Relayed"
    /\ mode = "Direct"
    /\ gate_event = "packet"
    /\ gate_seen # <<>>
    /\ gate_seen[Len(gate_seen)][2] = "Direct"
    /\ packet_log # <<>>
    /\ packet_log[Len(packet_log)] = gate_seen[Len(gate_seen)][1]

C10_ZeroTicksRejected ==
    ticks_per_slot = 0 =>
        /\ started = {}
        /\ new_step > 1 => new_state = "configuration_error"

\* C11: start-up is all or nothing: when Tpu::new has failed, no stage has
\* been started.
C11_AllOrNothing ==
    new_state = "panicked" => started = {}

(***************************************************************************)
(* Claims about the shutdown of the pipeline (SpecShutdown)                *)
(***************************************************************************)
\* C12: once the exit flag is set, every thread the Tpu owns ends - those
\* without the flag too, when the senders of their inputs are gone - and
\* Tpu::join returns.
C12_ShutdownCompletes ==
    exit ~> (Owned \subseteq terminated /\ join_pc = "done" /\ join_ret # <<>>)

\* the flag is set, the three stages without the flag have ended after the
\* holders of their senders, and join has returned Ok
C12_Witness ==
    /\ exit
    /\ {"sigverify_stage", "vote_sigverify_stage", "banking_stage"} \subseteq terminated
    /\ outcome["tpu_entry_notifier"] # "None"
    /\ outcome["tracer_thread_hdl"] # "None"
    /\ joined = Handles
    /\ join_ret = <<"Ok">>

(***************************************************************************)
(* Claims about the producers of the verification queue (SpecGate)         *)
(***************************************************************************)
\* C13 as stated: while the gate is Relayed the relayer is the only producer
\* that delivers a batch to the verification queue.
C13_RelayerSoleSource ==
    \A i \in 1..Len(relayed_log) : relayed_log[i][1] = "relayer_stage"

\* C13: while the gate is Relayed no batch of the primary ingress reaches the
\* verification queue, neither through the gate nor around it; the batches
\* delivered in that window come from the holders of the other clones of
\* packet_sender, the relayer stage and the block engine stage.
C13_NoIngressWhileRelayed ==
    \A i \in 1..Len(relayed_log) :
        /\ ~IsIngress(relayed_log[i])
        /\ relayed_log[i][1] \in Injectors

\* the gate is Relayed, has dropped an ingress batch in that mode, and the
\* block engine stage has delivered a batch of its own meanwhile
C13_Witness ==
    /\ mode = "Relayed"
    /\ \E i \in 1..Len(gate_seen) : ~IsDirect(gate_seen[i])
    /\ \E i \in 1..Len(relayed_log) : relayed_log[i][1] = "block_engine_stage"

(***************************************************************************)
(* Claims about reserved_ticks (SpecNew)                                   *)
(***************************************************************************)
\* Tpu::new is past the statement of tpu.rs 352-357
ReservedTicksComputed ==
    \E i \in 1..(new_step - 1) : NewSteps[i].kind = "reserved"

\* C16: reserved_ticks is the first 80% of the slot,
\* floor(8 * ticks_per_slot / 10), for every ticks_per_slot of the word, also
\* where the product by 8 leaves the word.
C16_ExactEightTenths ==
    ReservedTicksComputed => reserved_ticks = (8 * ticks_per_slot) \div 10

\* C17: for every ticks_per_slot > 0 the reserved_ticks of Tpu::new is
\* strictly below ticks_per_slot: the last tick of every slot has
\* reservation 0, the window never covers a whole slot.
C17_LastTickUnreserved ==
    (ReservedTicksComputed /\ ticks_per_slot > 0) =>
        /\ reserved_ticks < ticks_per_slot
        /\ \A slot \in 0..MaxSlots :
              calculate_block_cost_limit_reservation(
                  slot * ticks_per_slot + ticks_per_slot - 1, ticks_per_slot,
                  reserved_ticks, preallocated_bundle_cost) = 0

\* a slot with a reserved tick and a cost: its last reserved tick yields the
\* cost, its last tick yields 0
C17_Witness ==
    /\ ReservedTicksComputed
    /\ reserved_ticks > 0
    /\ preallocated_bundle_cost > 0
    /\ calculate_block_cost_limit_reservation(
           ticks_per_slot + reserved_ticks - 1, ticks_per_slot, reserved_ticks,
           preallocated_bundle_cost) = preallocated_bundle_cost
    /\ calculate_block_cost_limit_reservation(
           ticks_per_slot + ticks_per_slot - 1, ticks_per_slot, reserved_ticks,
           preallocated_bundle_cost) = 0

(***************************************************************************)
(* Claims about the vote path (SpecVote)                                   *)
(***************************************************************************)
\* C18: a vote batch never passes through the gate: in either mode every
\* vote batch sent by a vote transport is in the queue of the vote
\* verification stage or has been received by it, in the order sent, and
\* the gate has seen none of them.
C18_VotesBypassGate ==
    /\ BatchesOf(votes_sent) = vote_verified \o vote_packet
    /\ \A i \in 1..Len(gate_seen) : IsIngress(gate_seen[i][1])
    /\ \A i \in 1..Len(packet_intercept) : IsIngress(packet_intercept[i])

\* the gate is Relayed and has dropped an ingress batch; a vote batch sent
\* in that mode has been received by the vote verification stage
C18_Witness ==
    /\ mode = "Relayed"
    /\ \E i \in 1..Len(gate_seen) : ~IsDirect(gate_seen[i])
    /\ \E i \in 1..Len(vote_verified) : votes_sent[i][2] = "Relayed"

(***************************************************************************)
(* Claims about the precedence of failures in Tpu::join (SpecJoin)         *)
(***************************************************************************)
\* the thirteen listed stages, then the entry notifier, the broadcast stage
\* and the tracer thread
Precedence ==
    JoinOrder \o <<"tpu_entry_notifier", "broadcast_stage", "tracer_thread_hdl">>

\* the positions of Precedence whose handle's join yields Err
Failing == {i \in 1..Len(Precedence) : outcome[Precedence[i]] = "Err"}

\* C19: join returns the failure of the first failing handle in the order of
\* Precedence, an absent notifier or tracer counting as not failing, and Ok
\* exactly when none of them fails.
C19_OnePrecedenceOrder ==
    join_pc = "done" =>
        /\ join_ret = <<"Ok">> <=> Failing = {}
        /\ \A i \in Failing :
              (\A j \in Failing : i <= j) => join_ret = <<"Err", Precedence[i]>>

\* two listed stages and the notifier failed: the earlier stage is returned
C19_Witness ==
    /\ join_pc = "done"
    /\ {"bundle_stage", "fetch_stage_manager", "tpu_entry_notifier"} \subseteq Panicked
    /\ \A i \in 1..9 : outcome[JoinOrder[i]] = "Ok"
    /\ join_ret = <<"Err", "bundle_stage">>

=============================================================================
